---- MODULE Spec2Model ----
(***************************************************************************)
(* A model of the promo capture engine of src/image_extraction.py: the     *)
(* orchestrator (main, capture_single), the content locator, the frame     *)
(* scan and the viewer paginator (screenshot_flipbook_index); and of the   *)
(* model call with its retries, call_gemini of src/data_extraction.py.     *)
(*                                                                         *)
(* The browser is the environment.  Every awaited browser call either      *)
(* completes or raises; what a page, a frame or a viewer holds is chosen   *)
(* by the environment from small sets.                                     *)
(***************************************************************************)
EXTENDS Integers, Sequences, FiniteSets, TLC

VARIABLES
    pc,          \* position of the single control flow
    caller,      \* who called screenshot_flipbook_index: "capture_single" | "none"
    promos,      \* the list get_promos returned
    cur,         \* index in promos of the listing main's loop is at
    results,     \* what main received from capture_single, per listing
    prev,        \* what the previous listing came to (history, not program state)
    prevNet,     \* the previous session observed a document request (history)
    pageOpen,    \* the capture session's page exists and is not closed
    observerOn,  \* on_request is registered on the page
    routeOn,     \* the image-blocking route is installed on the page
    found_pdfs,  \* capture_single's local list of observed document URLs
    html,        \* markup of the loaded page (main frame)
    frames,      \* the page's frames: sequence of [parent, markup]
    pdf,         \* capture_single's local: the located document URL or None
    strategy,    \* which strategy produced the descriptor (history)
    savedPdf,    \* the document file has been written under PDF/
    kind,        \* what the current capture has come to so far (history)
    exit,        \* how the latest capture left its try block (history)
    viewerLen,   \* number of pages of the viewer behind the index URL
    viewerPage,  \* the page the viewer currently shows
    ctx,         \* paginator's local: the context of the capture target
    found,       \* paginator's local: the selector of the capture target
    page_num,    \* paginator's local: the running ordinal
    written,     \* ordinals of the page artifacts this capture has written
    lastShot,    \* ordinal, viewer page and target of the latest snapshot (history)
    stop,        \* why the paginator left its loop (history)
    ret,         \* the paginator's return value (-1: has not returned)
    activation,  \* how the latest advance control was activated, if at all (history)
    requests,    \* the requests the page issued while on_request was registered (history)
    req,         \* the request handed to the interceptor's handler
    decided,     \* the decisions that took effect on req, in order
    dl,          \* the download of the located document: status and fault (history)
    conv,        \* the call of convert_pdf_to_images: rasterizer, pages, result (history)
    pagesDir,    \* the capture's pages/ directory has been created
    anchors,     \* the anchors of the promo list page, in document order
    title,       \* the argument of safe
    folder,      \* the value safe returned
    openPages,   \* number of pages open in the browser
    image_b64,   \* call_gemini's argument: the page image it is asked about
    attempt,     \* call_gemini's loop variable
    data,        \* call_gemini's local: the JSON of the latest response
    posts,       \* the requests call_gemini has sent, in order (history)
    sleeps,      \* the seconds call_gemini has slept, in order (history)
    result       \* what call_gemini returned or raised

mainVars == <<promos, cur, results, prev, prevNet>>
sessVars == <<pageOpen, observerOn, routeOn, found_pdfs, pdf, strategy, savedPdf, kind, exit>>
envVars  == <<html, frames>>
fbVars   == <<viewerLen, viewerPage, ctx, found, page_num, written, lastShot, stop, ret,
             activation>>
netVars  == <<requests, req, decided>>
docVars  == <<dl, conv, pagesDir>>
discVars == <<anchors, title, folder>>
gemVars  == <<image_b64, attempt, data, posts, sleeps, result>>
newVars  == <<netVars, docVars, discVars, openPages, gemVars>>
vars     == <<pc, caller, mainVars, sessVars, envVars, fbVars, newVars>>


-----------------------------------------------------------------------------
(* Bounds of the model *)

MaxViewerPages == 3     \* longest viewer that has a last page
MaxLag         == 1     \* advances that were counted but moved nothing, per capture
MaxViewerFrames == 2    \* frames of a viewer page (the main frame included)
MaxFrames      == 4     \* frames of a page given to the frame scan on its own
MaxPromos      == 2     \* listings discovery returns
MaxTokens      == 2     \* tokens of a page's markup
MaxPageFrames  == 2     \* frames of a listing's page (the main frame included)
MaxDocPages    == 2     \* pages of a document
MaxRequests    == 2     \* requests a page issues before the locator reads the list
MaxAnchors     == 3     \* anchors of the promo list page
MaxTitleLen    == 3     \* characters of a title given to safe
MaxImages      == 4     \* page images call_gemini may be asked about

-----------------------------------------------------------------------------
(* URLs and markup *)

\* A URL as it is written somewhere: its file name, its extension, whether a
\* query string follows the path, and whether its path separators are
\* written escaped (https:\/\/...).
Url(name, ext, q) == [name |-> name, ext |-> ext, q |-> q, esc |-> FALSE]
Escaped(u) == [u EXCEPT !.esc = TRUE]

\* Python's None where a URL is expected
None == [name |-> "None", ext |-> "", q |-> FALSE, esc |-> FALSE]

DocA     == Url("a", "pdf", FALSE)
DocB     == Url("b", "pdf", FALSE)
DocN     == Url("n", "pdf", FALSE)
IndexUrl == Url("index", "html", FALSE)
PageUrl  == Url("promo", "html", FALSE)

\* Markup is a sequence of tokens: a "pdfUrl": "<value>" field, or a quoted
\* URL (an attribute value).
FieldTok(v) == [k |-> "field", v |-> v]
UrlTok(v)   == [k |-> "url", v |-> v]

\* .replace("\\/", "/")
Unescape(v) == [v EXCEPT !.esc = FALSE]

\* re.search(r'"pdfUrl"\s*:\s*"([^"]+)"', text): the first field's value
RECURSIVE FirstField(_, _)
FirstField(text, i) ==
    IF i > Len(text) THEN None
    ELSE IF text[i].k = "field" THEN text[i].v
    ELSE FirstField(text, i + 1)

\* what https://[^"']+\.pdf matches in one token: the literal scheme must be
\* there (not escaped), the extension is matched as written, and the match
\* ends at ".pdf" (a query string is left out)
GenericInToken(t) ==
    IF t.k \in {"field", "url"} /\ ~t.v.esc /\ t.v.ext = "pdf"
    THEN [t.v EXCEPT !.q = FALSE]
    ELSE None

\* re.search(r'https://[^"\']+\.pdf', text): the first match
RECURSIVE FirstGeneric(_, _)
FirstGeneric(text, i) ==
    IF i > Len(text) THEN None
    ELSE IF GenericInToken(text[i]) # None THEN GenericInToken(text[i])
    ELSE FirstGeneric(text, i + 1)

\* extract_pdf_url_from_text: the "pdfUrl" field first, then the generic URL
extract_pdf_url_from_text(text) ==
    IF text = <<>> THEN None
    ELSE IF FirstField(text, 1) # None THEN Unescape(FirstField(text, 1))
    ELSE FirstGeneric(text, 1)

\* re.search(r'(https://img\.indomaret\.co\.id[^"\']+index\.html)', html)
RECURSIVE FirstIndex(_, _)
FirstIndex(text, i) ==
    IF i > Len(text) THEN None
    ELSE IF /\ text[i].k \in {"field", "url"}
            /\ ~text[i].v.esc
            /\ text[i].v.name = "index" /\ text[i].v.ext = "html"
         THEN [text[i].v EXCEPT !.q = FALSE]
    ELSE FirstIndex(text, i + 1)

extract_flipbook_index_html(text) ==
    IF text = <<>> THEN None
    ELSE IF FirstIndex(text, 1) # None THEN Unescape(FirstIndex(text, 1))
    ELSE None

-----------------------------------------------------------------------------
(* Frame scan *)

\* A page's frames, in page.frames order: fr[i] = [parent, markup]; fr[1] is
\* the main frame (parent 0) and a frame is attached after its parent.  The
\* markup is a token sequence, or Fault when frame.content() raises.
Fault == <<[k |-> "fault", v |-> None]>>

\* frame.content() and the pattern search inside the try
FrameMatch(fr, i) ==
    IF fr[i].markup = Fault THEN None
    ELSE IF fr[i].markup = <<>> THEN None
    ELSE FirstGeneric(fr[i].markup, 1)

RECURSIVE find_pdf_in_frames_recursively(_, _)
RECURSIVE ScanChildren(_, _, _)

\* for child in frame.child_frames: ... if pdf: return pdf
ScanChildren(fr, i, j) ==
    IF j > Len(fr) THEN None
    ELSE IF fr[j].parent = i /\ find_pdf_in_frames_recursively(fr, j) # None
         THEN find_pdf_in_frames_recursively(fr, j)
    ELSE ScanChildren(fr, i, j + 1)

ScanChildrenBeforeSelf(fr, i) ==
    IF ScanChildren(fr, i, i + 1) # None THEN ScanChildren(fr, i, i + 1)
    ELSE FrameMatch(fr, i)
\* the frame's own markup first, its children only when it holds nothing
find_pdf_in_frames_recursively(fr, i) ==
    IF FrameMatch(fr, i) # None THEN FrameMatch(fr, i)
    ELSE ScanChildren(fr, i, i + 1)

\* for f in page.frames: ... if pdf: return pdf
RECURSIVE ScanFrom(_, _)
ScanFrom(fr, i) ==
    IF i > Len(fr) THEN None
    ELSE IF find_pdf_in_frames_recursively(fr, i) # None
         THEN find_pdf_in_frames_recursively(fr, i)
    ELSE ScanFrom(fr, i + 1)

extract_pdf_from_iframes(fr) == ScanFrom(fr, 1)

\* the shapes of a frame tree of n frames: the parent of each frame
Shapes(n) ==
    {p \in [1 .. n -> 0 .. (n - 1)] :
        /\ p[1] = 0
        /\ \A i \in 2 .. n : p[i] >= 1 /\ p[i] < i}

\* the tree of shape p whose main frame holds root and whose other frames
\* hold m[i]
Tree(p, root, m) ==
    [i \in DOMAIN p |->
        [parent |-> p[i], markup |-> IF i = 1 THEN root ELSE m[i]]]

\* the locals of capture_single and the page it loaded, before a capture
\* starts and after it is over
SessFresh ==
    /\ found_pdfs = <<>>
    /\ pdf = None
    /\ strategy = "none"
    /\ savedPdf = FALSE
    /\ kind = "failed"
    /\ html = <<>>
    /\ frames = <<>>

-----------------------------------------------------------------------------
(* Viewer paginator: screenshot_flipbook_index *)

\* while page_num <= 500
Ceiling == 500

\* the five page-content selectors and the five advance controls, by priority
Selectors   == 1 .. 5
NextButtons == 1 .. 5

LoopGuardOffByOne(n) == n <= Ceiling + 1
LoopGuard(n) == n <= Ceiling

BreakOnSnapshotFailureNot == FALSE
\* except Exception: break (around the snapshot)
BreakOnSnapshotFailure == TRUE

NextOrdinalSkips(n) == n + 2
\* page_num += 1
NextOrdinal(n) == n + 1

\* return page_num - 1
ReturnCount(n) == n - 1

ExceptSkipsFinally == "main_loop"
\* capture_single's except Exception as e: print; then its finally block
ExceptTarget == "cs_finally"

\* where control goes when screenshot_flipbook_index returns / raises
FbReturnTo == IF caller = "capture_single" THEN "cs_flip_done" ELSE "fb_done"
FbRaiseTo  == IF caller = "capture_single" THEN ExceptTarget ELSE "fb_raised"

\* leaving the loop (break, or the loop condition failing) and returning
FbReturn(n, why) ==
    /\ ret' = ReturnCount(n)
    /\ stop' = why
    /\ pc' = FbReturnTo

\* The viewers the index URL may load: any with a last page; a viewer whose
\* advance control never goes away is drawn in the single-capture
\* specification only, where its 500 iterations are explored.
ViewerLens ==
    IF caller = "none" THEN (1 .. MaxViewerPages) \cup {Ceiling + 1}
    ELSE 1 .. MaxViewerPages

\* page.goto(url); page.wait_for_load_state("load")
FbGoto ==
    /\ pc = "fb_goto"
    /\ \/ /\ pc' = "fb_find"
          /\ viewerLen' \in ViewerLens
          /\ html' = <<>>              \* the listing's page is gone: the
          /\ frames' = <<>>            \* page now shows the viewer
          /\ UNCHANGED ret
       \/ /\ ret' = 0                  \* except Exception: return 0
          /\ pc' = FbReturnTo
          /\ UNCHANGED <<viewerLen, html, frames>>
    /\ UNCHANGED <<caller, mainVars, sessVars>>
    /\ UNCHANGED <<viewerPage, ctx, found, page_num, written, lastShot, stop, activation>>
    /\ UNCHANGED newVars

\* The probes of the target search.  Context 0 is the page itself; contexts
\* 1..nf are page.frames, of which 1 is the main frame (the page's own DOM).
Probes(nf) == (0 .. nf) \X Selectors

\* what may match in a viewer page of nf frames: nothing, one (frame,
\* selector) pair or two
Matchings(nf) ==
    {{}} \cup {{a, b} : a \in (1 .. nf) \X Selectors, b \in (1 .. nf) \X Selectors}

\* does selector s match in context c, given the (frame, selector) pairs that match
Matches(m, c, s) == <<(IF c = 0 THEN 1 ELSE c), s>> \in m

\* for sel in selectors (one context): the first selector whose probe neither
\* raises nor counts 0, or 0
RECURSIVE FirstSelector(_, _, _, _)
FirstSelector(m, raised, c, s) ==
    IF s > 5 THEN 0
    ELSE IF <<c, s>> \notin raised /\ Matches(m, c, s) THEN s
    ELSE FirstSelector(m, raised, c, s + 1)

\* for f in page.frames: ... if found: break
RECURSIVE FirstFrame(_, _, _, _)
FirstFrame(m, raised, nf, c) ==
    IF c > nf THEN <<0, 0>>
    ELSE IF FirstSelector(m, raised, c, 1) # 0
         THEN <<c, FirstSelector(m, raised, c, 1)>>
    ELSE FirstFrame(m, raised, nf, c + 1)

FindTargetFramesFirst(m, raised, nf) ==
    IF FirstFrame(m, raised, nf, 1) # <<0, 0>>
    THEN FirstFrame(m, raised, nf, 1)
    ELSE <<0, FirstSelector(m, raised, 0, 1)>>
\* the whole target search: the page first, the frames only if not found
FindTarget(m, raised, nf) ==
    IF FirstSelector(m, raised, 0, 1) # 0
    THEN <<0, FirstSelector(m, raised, 0, 1)>>
    ELSE FirstFrame(m, raised, nf, 1)

FbFind ==
    /\ pc = "fb_find"
    /\ \E nf \in 1 .. MaxViewerFrames :
       \E m \in Matchings(nf) :
       \E raised \in {{}} \cup {{x} : x \in Probes(nf)} :
          LET t == FindTarget(m, raised, nf) IN
          IF t[2] = 0
          THEN /\ ret' = 0             \* No flipbook selector found
               /\ pc' = FbReturnTo
               /\ UNCHANGED <<ctx, found>>
          ELSE /\ ctx' = t[1]
               /\ found' = t[2]
               /\ pc' = "fb_mkdir"
               /\ UNCHANGED ret
    /\ UNCHANGED <<caller, mainVars, sessVars, envVars>>
    /\ UNCHANGED <<viewerLen, viewerPage, page_num, written, lastShot, stop, activation>>
    /\ UNCHANGED newVars

\* out_dir.mkdir(parents=True, exist_ok=True); page_num = 1
FbMkdir ==
    /\ pc = "fb_mkdir"
    /\ \/ /\ page_num' = 1
          /\ pagesDir' = TRUE
          /\ pc' = "fb_snapshot"       \* 1 <= 500
          /\ UNCHANGED exit
       \/ /\ pc' = FbRaiseTo           \* not inside any try of this function
          /\ exit' = "exception"
          /\ UNCHANGED <<page_num, pagesDir>>
    /\ UNCHANGED <<caller, mainVars, envVars>>
    /\ UNCHANGED <<pageOpen, observerOn, routeOn, found_pdfs, pdf, strategy, savedPdf, kind>>
    /\ UNCHANGED <<viewerLen, viewerPage, ctx, found, written, lastShot, stop, ret, activation>>
    /\ UNCHANGED <<netVars, dl, conv, discVars, openPages, gemVars>>

\* the try block of the loop: locator(found).first, wait 200 ms, screenshot
FbSnapshot ==
    /\ pc = "fb_snapshot"
    /\ \/ /\ written' = written \cup {page_num}
          /\ lastShot' = [ord |-> page_num, vp |-> viewerPage, at |-> <<ctx, found>>]
          /\ pc' = "fb_probe"
          /\ UNCHANGED <<stop, ret>>
       \/ /\ IF BreakOnSnapshotFailure
             THEN FbReturn(page_num, "snapshot_failed")
             ELSE pc' = "fb_probe" /\ stop' = "snapshot_failed" /\ UNCHANGED ret
          /\ UNCHANGED <<written, lastShot>>
    /\ activation' = "none"            \* no control has been tried since
    /\ UNCHANGED <<caller, mainVars, sessVars, envVars>>
    /\ UNCHANGED <<viewerLen, viewerPage, ctx, found, page_num>>
    /\ UNCHANGED newVars

\* for btn in next_buttons: the first control that is present and whose
\* count() does not raise, or 0
RECURSIVE FirstButton(_, _, _)
FirstButton(present, countRaises, b) ==
    IF b > 5 THEN 0
    ELSE IF b \notin countRaises /\ b \in present THEN b
    ELSE FirstButton(present, countRaises, b + 1)

\* the controls a viewer can show: none on its last page
Presentable == IF viewerPage < viewerLen THEN SUBSET NextButtons ELSE {{}}

\* the for loop over next_buttons up to the control found; "if not clicked: break"
FbProbe ==
    /\ pc = "fb_probe"
    /\ \E present \in Presentable :
       \E countRaises \in {x \in SUBSET present : Cardinality(x) <= 1} :
          LET b == FirstButton(present, countRaises, 1) IN
          IF b # 0
          THEN pc' = "fb_click" /\ UNCHANGED <<stop, ret>>
          ELSE FbReturn(page_num, "no_control")
    /\ UNCHANGED <<caller, mainVars, sessVars, envVars>>
    /\ UNCHANGED <<viewerLen, viewerPage, ctx, found, page_num, written, lastShot, activation>>
    /\ UNCHANGED newVars

\* clicked = True is set whatever el.click() and ctx.evaluate() did
Clicked(outcome) == TRUE

\* the viewer turns the page when the click or the scripted click went through
Turned(outcome) == outcome \in {"click", "evaluate"}

\* el.click() accepted; rejected and ctx.evaluate() clicked; both raised
ClickOutcomes == {"click", "evaluate", "nothing"}

\* el.click() with its fallback, clicked = True, break; page_num += 1 and the
\* loop condition
FbClick ==
    /\ pc = "fb_click"
    /\ \E outcome \in ClickOutcomes :
          /\ outcome = "nothing" => page_num - viewerPage < MaxLag
          /\ viewerPage' = IF Turned(outcome) THEN viewerPage + 1 ELSE viewerPage
          /\ activation' = outcome
          /\ IF Clicked(outcome)
             THEN /\ page_num' = NextOrdinal(page_num)
                  /\ IF LoopGuard(NextOrdinal(page_num))
                     THEN pc' = "fb_snapshot" /\ UNCHANGED <<stop, ret>>
                     ELSE FbReturn(NextOrdinal(page_num), "ceiling")
             ELSE /\ FbReturn(page_num, "no_control")
                  /\ UNCHANGED page_num
    /\ UNCHANGED <<caller, mainVars, sessVars, envVars>>
    /\ UNCHANGED <<viewerLen, ctx, found, written, lastShot>>
    /\ UNCHANGED newVars

\* no snapshot has been taken
NoShot == [ord |-> 0, vp |-> 0, at |-> <<0, 0>>]

\* the state of the locals before the function has run
FbFresh ==
    /\ viewerLen = 0
    /\ viewerPage = 1
    /\ ctx = 0
    /\ found = 0
    /\ page_num = 0
    /\ written = {}
    /\ lastShot = NoShot
    /\ stop = "none"
    /\ ret = -1
    /\ activation = "none"

\* the state of what lies outside a viewer capture, before anything has run
NoRequest == [rtype |-> "", url |-> <<>>]
NoDownload == [status |-> 0, fault |-> "none"]
NoConversion ==
    [called |-> FALSE, fitz |-> FALSE, pages |-> 0, count |-> 0, order |-> <<>>,
     raised |-> FALSE]

NewFresh ==
    /\ requests = <<>>
    /\ req = NoRequest
    /\ decided = <<>>
    /\ dl = NoDownload
    /\ conv = NoConversion
    /\ pagesDir = FALSE
    /\ anchors = <<>>
    /\ title = <<>>
    /\ folder = <<>>

\* a response's JSON: "error" is absent, an object with a "code" (a string, a
\* number or none) or a plain text; body: the image the completion is about
NoCode == [type |-> "none", v |-> 0]
NoData == [error |-> "unset", code |-> NoCode, body |-> 0]
NoResult == [how |-> "none", value |-> NoData, exc |-> "none"]

\* call_gemini has not been called
GemFresh ==
    /\ image_b64 = 0
    /\ attempt = 0
    /\ data = NoData
    /\ posts = <<>>
    /\ sleeps = <<>>
    /\ result = NoResult

\* one viewer capture on its own, for any viewer: one with a last page, or
\* one whose advance control never goes away
InitPaginator ==
    /\ pc = "fb_goto"
    /\ caller = "none"
    /\ promos = <<>> /\ cur = 0 /\ results = <<>> /\ prev = "none"
    /\ prevNet = FALSE
    /\ pageOpen = TRUE /\ observerOn = TRUE /\ routeOn = TRUE /\ exit = "none"
    /\ SessFresh
    /\ FbFresh
    /\ NewFresh
    /\ openPages = 1
    /\ GemFresh

NextPaginator == FbGoto \/ FbFind \/ FbMkdir \/ FbSnapshot \/ FbProbe \/ FbClick

SpecPaginator == InitPaginator /\ [][NextPaginator]_vars /\ WF_vars(NextPaginator)

-----------------------------------------------------------------------------
(* Capture orchestrator: main and capture_single *)

\* a document request with a query string after its path (.../n.pdf?v=2)
DocNQ == Url("n", "pdf", TRUE)

\* what the network may request while a page of the site is loading
ReqUrls == {DocN, DocA, DocNQ, PageUrl}

\* the markup a loaded page may hold
PageTokens == {FieldTok(Escaped(DocA)), UrlTok(DocB), UrlTok(IndexUrl)}

PageMarkups == UNION {[1 .. n -> PageTokens] : n \in 0 .. MaxTokens}

\* the markup of the frames below the main one
ChildMarkups == {<<>>, <<UrlTok(DocA)>>}

\* Text is a sequence of characters.
Whitespace == {" ", "\t"}
Forbidden  == {"\\", "/", "*", "?", ":", "\"", "<", ">", "|"}
Untitled   == <<"u", "n", "t", "i", "t", "l", "e", "d">>

\* str.strip(): leading and trailing whitespace removed
RECURSIVE StripLeft(_)
StripLeft(t) ==
    IF t # <<>> /\ Head(t) \in Whitespace THEN StripLeft(Tail(t)) ELSE t

RECURSIVE StripRight(_)
StripRight(t) ==
    IF t # <<>> /\ t[Len(t)] \in Whitespace
    THEN StripRight(SubSeq(t, 1, Len(t) - 1))
    ELSE t

Strip(t) == StripRight(StripLeft(t))

\* re.sub(r'[\\/*?:"<>|]', "", name)
IsAllowedChar(c) == c \notin Forbidden
RemoveForbidden(t) == SelectSeq(t, IsAllowedChar)

SafeNoDefault(name) == RemoveForbidden(Strip(name))
\* safe(name): strip, remove the forbidden characters, "untitled" if nothing
\* is left
safe(name) ==
    IF RemoveForbidden(Strip(name)) = <<>> THEN Untitled
    ELSE RemoveForbidden(Strip(name))

\* An href as written: relative to the site ("rel": /path), protocol-relative
\* ("proto": //www.indomaret.co.id/path) or absolute ("abs"); img: it ends in
\* an image extension (a thumbnail link).  NoHref: no href attribute.
Href(form, path, img) == [form |-> form, path |-> path, img |-> img]
NoHref == [form |-> "none", path |-> <<>>, img |-> FALSE]

\* if href.startswith("//"): "https:" + href;
\* if not href.startswith("http"): "https://www.indomaret.co.id" + href
NormalizeLink(h) == [h EXCEPT !.form = "abs"]

\* if href ends in an image extension: the first other anchor of the card
\* (or of its parent) that is no upload and no image, when there is one
ResolveHref(a) ==
    IF a.href.img /\ a.real # NoHref THEN a.real ELSE a.href

\* str.title() on the last path segment with "-" replaced by " "
UpperCase(c) == CASE c = "a" -> "A" [] c = "b" -> "B" [] OTHER -> c
TitleFromUrl(h) ==
    LET w == [i \in DOMAIN h.path |-> IF h.path[i] = "-" THEN " " ELSE h.path[i]]
    IN [i \in DOMAIN w |-> IF i = 1 \/ w[i - 1] = " " THEN UpperCase(w[i]) ELSE w[i]]

\* the entry appended for one anchor.  a.title is what the image's alt text,
\* the anchor's text or a nearby heading gave (<<>>: nothing)
Entry(a) ==
    LET href == NormalizeLink(ResolveHref(a))
        t    == IF a.title # <<>> THEN a.title ELSE TitleFromUrl(href)
    IN [title |-> t, link |-> href, folder |-> safe(t)]

\* an anchor without href, or whose inspection raises, adds nothing
Skipped(a) == a.href = NoHref \/ a.raises

\* the loop over the anchors: promos before deduplication
RECURSIVE Entries(_)
Entries(as) ==
    IF as = <<>> THEN <<>>
    ELSE IF Skipped(Head(as)) THEN Entries(Tail(as))
    ELSE <<Entry(Head(as))>> \o Entries(Tail(as))

\* is link among the links of the entries es
Seen(link, es) == \E i \in DOMAIN es : es[i].link = link

RECURSIVE DedupeKeepLast(_, _)
DedupeKeepLast(es, unique) ==
    IF es = <<>> THEN unique
    ELSE DedupeKeepLast(Tail(es),
            IF Seen(Head(es).link, Tail(es)) THEN unique ELSE Append(unique, Head(es)))
\* seen = set(); for p in promos: if p["link"] not in seen: unique.append(p)
RECURSIVE Dedupe(_, _)
Dedupe(es, unique) ==
    IF es = <<>> THEN unique
    ELSE Dedupe(Tail(es),
            IF Seen(Head(es).link, unique) THEN unique ELSE Append(unique, Head(es)))

get_promos(as) == Dedupe(Entries(as), <<>>)

ClosePageNot(n) == n
\* await page.close(): one page fewer is open
ClosePage(n) == n - 1

\* page = await browser.new_page(); block_nonflip_images(page);
\* promos = await get_promos(page); await page.close().  get_promos raises
\* when the list page cannot be loaded, which ends main.
Discover ==
    /\ pc = "main_discover"
    /\ \/ /\ promos' = get_promos(anchors)
          /\ openPages' = ClosePage(openPages + 1)
          /\ cur' = 1
          /\ pc' = "main_loop"
       \/ /\ pc' = "main_failed"
          /\ openPages' = openPages + 1
          /\ UNCHANGED <<promos, cur>>
    /\ UNCHANGED <<caller, results, prev, prevNet, sessVars, envVars, fbVars>>
    /\ UNCHANGED <<netVars, docVars, discVars, gemVars>>

\* for promo in promos: await capture_single(promo, browser); browser.close()
MainLoop ==
    /\ pc = "main_loop"
    /\ pc' = IF cur <= Len(promos) THEN "cs_mkdir" ELSE "main_done"
    /\ UNCHANGED <<caller, mainVars, sessVars, envVars, fbVars>>
    /\ UNCHANGED newVars

\* folder.mkdir(parents=True, exist_ok=True): before the try statement, so
\* what it raises leaves capture_single and, uncaught in main's loop, main
CsMkdir ==
    /\ pc = "cs_mkdir"
    /\ \/ pc' = "cs_open"
       \/ pc' = "main_aborted"
    /\ UNCHANGED <<caller, mainVars, sessVars, envVars, fbVars>>
    /\ UNCHANGED newVars

KeepCandidates == found_pdfs
\* found_pdfs: List[str] = []: a new list in every call of capture_single
NewCandidates == <<>>

\* page = await browser.new_page(), also before the try; then
\* block_nonflip_images (page.route may raise, which is swallowed),
\* found_pdfs = [] and page.on("request", on_request)
CsOpen ==
    /\ pc = "cs_open"
    /\ \/ /\ pageOpen' = TRUE
          /\ openPages' = openPages + 1
          /\ routeOn' \in BOOLEAN
          /\ found_pdfs' = NewCandidates
          /\ observerOn' = TRUE
          /\ exit' = "none"
          /\ pc' = "cs_goto"
       \/ /\ pc' = "main_aborted"
          /\ UNCHANGED <<pageOpen, routeOn, found_pdfs, observerOn, exit, openPages>>
    /\ UNCHANGED <<caller, mainVars, pdf, strategy, savedPdf, kind, envVars, fbVars>>
    /\ UNCHANGED <<netVars, docVars, discVars, gemVars>>

\* url.lower().endswith(".pdf")
EndsWithPdf(u) == u.ext \in {"pdf", "PDF"} /\ ~u.q

InSeq(x, sq) == \E i \in DOMAIN sq : sq[i] = x

\* on_request(request) runs whenever the page issues a request while the
\* handler is registered, that is at any await of the capture.  found_pdfs
\* is read once, by the locator; a request after that changes nothing that
\* is read again, so requests are drawn up to that read.
AwaitPcs == {"cs_goto", "cs_locate"}

\* the body of on_request: the list after a request for u
on_request(fp, u) ==
    IF EndsWithPdf(u) /\ ~InSeq(u, fp) THEN Append(fp, u) ELSE fp

OnRequest ==
    /\ observerOn
    /\ pc \in AwaitPcs
    /\ Len(requests) < MaxRequests
    /\ \E u \in ReqUrls :
          /\ requests' = Append(requests, u)
          /\ found_pdfs' = on_request(found_pdfs, u)
    /\ UNCHANGED <<pc, caller, mainVars, envVars, fbVars>>
    /\ UNCHANGED <<pageOpen, observerOn, routeOn, pdf, strategy, savedPdf, kind, exit>>
    /\ UNCHANGED <<req, decided, docVars, discVars, openPages, gemVars>>

\* page.goto(link), wait_for_load_state("networkidle"), wait_for_timeout(3000)
CsGoto ==
    /\ pc = "cs_goto"
    /\ \/ /\ pc' = "cs_locate"
          /\ UNCHANGED exit
       \/ /\ pc' = ExceptTarget
          /\ exit' = "exception"
    /\ UNCHANGED <<caller, mainVars, envVars, fbVars>>
    /\ UNCHANGED <<pageOpen, observerOn, routeOn, found_pdfs, pdf, strategy, savedPdf, kind>>
    /\ UNCHANGED newVars

LocateInlineFirst(fp, text, fr, contentRaises) ==
    IF ~contentRaises /\ extract_pdf_url_from_text(text) # None
    THEN [pdf |-> extract_pdf_url_from_text(text),
          by |-> IF text # <<>> /\ FirstField(text, 1) # None THEN "field" ELSE "generic",
          raised |-> FALSE]
    ELSE IF fp # <<>> THEN [pdf |-> fp[1], by |-> "network", raised |-> FALSE]
    ELSE [pdf |-> None, by |-> "none", raised |-> contentRaises]
\* pdf = None; found_pdfs[0] if any; else page.content() and
\* extract_pdf_url_from_text; else extract_pdf_from_iframes
Locate(fp, text, fr, contentRaises) ==
    IF fp # <<>> THEN [pdf |-> fp[1], by |-> "network", raised |-> FALSE]
    ELSE IF contentRaises THEN [pdf |-> None, by |-> "none", raised |-> TRUE]
    ELSE IF extract_pdf_url_from_text(text) # None
         THEN [pdf |-> extract_pdf_url_from_text(text),
               by |-> IF FirstField(text, 1) # None THEN "field" ELSE "generic",
               raised |-> FALSE]
    ELSE IF extract_pdf_from_iframes(fr) # None
         THEN [pdf |-> extract_pdf_from_iframes(fr), by |-> "frames", raised |-> FALSE]
    ELSE [pdf |-> None, by |-> "none", raised |-> FALSE]

\* the locator of capture_single up to "if pdf:".  What the page and its
\* frames hold is read here, by page.content() and the frame scan, so it is
\* here that the page's markup is drawn.
CsLocate ==
    /\ pc = "cs_locate"
    /\ html' \in PageMarkups
    /\ \E n \in 1 .. MaxPageFrames :
       \E p \in Shapes(n) :
       \E m \in [2 .. n -> ChildMarkups] : frames' = Tree(p, html', m)
    /\ \E contentRaises \in BOOLEAN :
          LET l == Locate(found_pdfs, html', frames', contentRaises) IN
          /\ pdf' = l.pdf
          /\ strategy' = l.by
          /\ pc' = IF l.raised THEN ExceptTarget
                   ELSE IF l.pdf # None THEN "cs_download"
                   ELSE "cs_index"
          /\ exit' = IF l.raised THEN "exception" ELSE exit
    /\ UNCHANGED <<caller, mainVars, fbVars>>
    /\ UNCHANGED <<pageOpen, observerOn, routeOn, found_pdfs, savedPdf, kind>>
    /\ requests' = <<>>                \* the list has been read: the history ends
    /\ UNCHANGED <<req, decided, docVars, discVars, openPages, gemVars>>

\* What the transfer of the document comes to: the response's status (0:
\* page.request.get raised and there is no response) and the call that
\* raised: "get", "body" (reading the response body) or "write"
\* (dest.write_bytes, which may leave a file behind or not).
Downloads ==
    {[status |-> 0,   fault |-> "get"],
     [status |-> 404, fault |-> "none"],
     [status |-> 200, fault |-> "body"],
     [status |-> 200, fault |-> "write"],
     [status |-> 200, fault |-> "none"]}

DownloadWritesFirst(d, partial) ==
    [ok |-> d.fault = "none" /\ d.status = 200,
     wrote |-> d.fault \notin {"get", "body"} /\ (d.fault = "write" => partial)]
\* download_pdf: True only when the response has status 200 and its body was
\* read and written; the file is written after the body has arrived
download_pdf(d, partial) ==
    IF d.fault = "get" THEN [ok |-> FALSE, wrote |-> FALSE]
    ELSE IF d.status # 200 THEN [ok |-> FALSE, wrote |-> FALSE]
    ELSE IF d.fault = "body" THEN [ok |-> FALSE, wrote |-> FALSE]
    ELSE IF d.fault = "write" THEN [ok |-> FALSE, wrote |-> partial]
    ELSE [ok |-> TRUE, wrote |-> TRUE]

FallThroughToViewer == "cs_index"
\* the "return" that ends the document branch, whatever download_pdf
\* returned: the finally block is next
DocumentReturn == "cs_finally"

\* if pdf: pdf_dir.mkdir(...), which may raise; download_pdf; "return" when
\* it returned False
CsDownload ==
    /\ pc = "cs_download"
    /\ \/ \E d \in Downloads, partial \in BOOLEAN :
             LET r == download_pdf(d, partial) IN
             /\ partial => d.fault = "write"
             /\ dl' = d
             /\ savedPdf' = r.wrote
             /\ pc' = IF r.ok THEN "cs_convert" ELSE DocumentReturn
             /\ exit' = IF r.ok THEN exit ELSE "return"
       \/ /\ pc' = ExceptTarget        \* pdf_dir.mkdir raised
          /\ exit' = "exception"
          /\ UNCHANGED <<savedPdf, dl>>
    /\ html' = <<>> /\ frames' = <<>>   \* the page's markup is not read again
    /\ UNCHANGED <<caller, mainVars, fbVars>>
    /\ UNCHANGED <<pageOpen, observerOn, routeOn, found_pdfs, pdf, strategy, kind>>
    /\ UNCHANGED <<netVars, conv, pagesDir, discVars, openPages, gemVars>>

\* CONVERT_PDF_TO_PNG = True
CONVERT_PDF_TO_PNG == TRUE

PageOrdinalFromZero(i) == i
\* outfile = out_dir / f"page_{i+1:03d}.png"
PageOrdinal(i) == i + 1

\* for i in range(count): load_page, get_pixmap, save; failAt is the page
\* (counted from 1) whose conversion raises, 0 when none does
RECURSIVE ConvertPages(_, _, _, _)
ConvertPages(count, i, failAt, acc) ==
    IF i >= count THEN [order |-> acc, raised |-> FALSE]
    ELSE IF i + 1 = failAt THEN [order |-> acc, raised |-> TRUE]
    ELSE ConvertPages(count, i + 1, failAt, Append(acc, PageOrdinal(i)))

ConvertMkdirFirst(fitz, P, openFails, failAt) ==
    IF ~fitz THEN [count |-> 0, order |-> <<>>, dir |-> TRUE, raised |-> FALSE]
    ELSE IF openFails THEN [count |-> 0, order |-> <<>>, dir |-> TRUE, raised |-> TRUE]
    ELSE [count |-> P, order |-> ConvertPages(P, 0, failAt, <<>>).order,
          dir |-> TRUE, raised |-> ConvertPages(P, 0, failAt, <<>>).raised]
\* convert_pdf_to_images: 0 without PyMuPDF, before anything is created;
\* else fitz.open (which may raise), out_dir.mkdir, one artifact per page
\* and the page count
convert_pdf_to_images(fitz, P, openFails, failAt) ==
    IF ~fitz THEN [count |-> 0, order |-> <<>>, dir |-> FALSE, raised |-> FALSE]
    ELSE IF openFails THEN [count |-> 0, order |-> <<>>, dir |-> FALSE, raised |-> TRUE]
    ELSE [count |-> P, order |-> ConvertPages(P, 0, failAt, <<>>).order,
          dir |-> TRUE, raised |-> ConvertPages(P, 0, failAt, <<>>).raised]

\* the elements of a sequence
Range(sq) == {sq[i] : i \in DOMAIN sq}

\* if CONVERT_PDF_TO_PNG: count = convert_pdf_to_images(pdf_path,
\* folder / "pages"); print; return
CsConvert ==
    /\ pc = "cs_convert"
    /\ IF CONVERT_PDF_TO_PNG
       THEN \E fitz \in BOOLEAN, P \in 1 .. MaxDocPages, openFails \in BOOLEAN :
            \E failAt \in 0 .. P :
               LET c == convert_pdf_to_images(fitz, P, openFails, failAt) IN
               /\ ~fitz => (~openFails /\ failAt = 0 /\ P = 1)
               /\ openFails => (failAt = 0 /\ P = 1)
               /\ conv' = [called |-> TRUE, fitz |-> fitz,
                           pages |-> IF fitz /\ ~openFails THEN P ELSE 0,
                           count |-> c.count, order |-> c.order, raised |-> c.raised]
               /\ written' = Range(c.order)
               /\ pagesDir' = c.dir
               /\ kind' = IF c.raised THEN kind
                          ELSE IF ~fitz THEN "degraded" ELSE "pages"
               /\ pc' = IF c.raised THEN ExceptTarget ELSE DocumentReturn
               /\ exit' = IF c.raised THEN "exception" ELSE "return"
       ELSE /\ pc' = DocumentReturn
            /\ exit' = "return"
            /\ kind' = "degraded"
            /\ UNCHANGED <<conv, written, pagesDir>>
    /\ UNCHANGED <<caller, mainVars, envVars>>
    /\ UNCHANGED <<pageOpen, observerOn, routeOn, found_pdfs, pdf, strategy, savedPdf>>
    /\ UNCHANGED <<viewerLen, viewerPage, ctx, found, page_num, lastShot, stop, ret, activation>>
    /\ UNCHANGED <<netVars, dl, discVars, openPages, gemVars>>

\* html = await page.content(); idx = extract_flipbook_index_html(html);
\* the paginator if idx, else "No PDF or Flipbook found."
CsIndex ==
    /\ pc = "cs_index"
    /\ \/ /\ extract_flipbook_index_html(html) # None
          /\ strategy' = "viewer"
          /\ caller' = "capture_single"
          /\ pc' = "fb_goto"
          /\ UNCHANGED exit
       \/ /\ extract_flipbook_index_html(html) = None
          /\ pc' = "cs_finally"
          /\ exit' = "return"
          /\ UNCHANGED <<strategy, caller>>
       \/ /\ pc' = ExceptTarget        \* page.content() raised
          /\ exit' = "exception"
          /\ UNCHANGED <<strategy, caller>>
    /\ UNCHANGED <<mainVars, envVars, fbVars>>
    /\ UNCHANGED <<pageOpen, observerOn, routeOn, found_pdfs, pdf, savedPdf, kind>>
    /\ UNCHANGED newVars

\* pages = await screenshot_flipbook_index(...); print; return
CsFlipDone ==
    /\ pc = "cs_flip_done"
    /\ kind' = IF written = {} THEN "failed"
               ELSE IF stop = "snapshot_failed" THEN "partial"
               ELSE "pages"
    /\ pc' = "cs_finally"
    /\ exit' = "return"
    /\ UNCHANGED <<caller, mainVars, envVars, fbVars>>
    /\ UNCHANGED <<pageOpen, observerOn, routeOn, found_pdfs, pdf, strategy, savedPdf>>
    /\ UNCHANGED newVars

\* capture_single has no return statement with a value
ReturnValue(k) == "None"

\* finally: page.off("request", on_request); await page.close(); then the
\* function returns and main's loop moves to the next listing
CsFinally ==
    /\ pc = "cs_finally"
    /\ observerOn' = FALSE
    /\ pageOpen' = FALSE
    /\ openPages' = ClosePage(openPages)
    /\ routeOn' = FALSE
    /\ results' = Append(results, ReturnValue(kind))
    /\ prev' = kind
    /\ prevNet' = (found_pdfs # <<>>)
    /\ cur' = cur + 1
    /\ pc' = "main_loop"
    /\ caller' = "none"
    /\ pdf' = None /\ strategy' = "none"
    /\ savedPdf' = FALSE /\ kind' = "failed"
    /\ html' = <<>> /\ frames' = <<>>
    /\ viewerLen' = 0 /\ viewerPage' = 1 /\ ctx' = 0 /\ found' = 0
    /\ page_num' = 0 /\ written' = {} /\ lastShot' = NoShot
    /\ stop' = "none" /\ ret' = -1 /\ activation' = "none"
    /\ UNCHANGED <<promos, exit, found_pdfs>>  \* the list is not touched again
    /\ requests' = <<>>
    /\ dl' = NoDownload /\ conv' = NoConversion /\ pagesDir' = FALSE
    /\ UNCHANGED <<req, decided, discVars, gemVars>>

\* the anchor of the i-th listing of a list page whose listings differ in
\* link and title
ListingAnchor(i) ==
    [href |-> Href("abs", [j \in 1 .. i |-> "a"], FALSE), real |-> NoHref,
     title |-> [j \in 1 .. i |-> "A"], raises |-> FALSE]

Init ==
    /\ pc = "main_discover"
    /\ caller = "none"
    /\ promos = <<>> /\ cur = 0 /\ results = <<>> /\ prev = "none"
    /\ prevNet = FALSE
    /\ pageOpen = FALSE /\ observerOn = FALSE /\ routeOn = FALSE /\ exit = "none"
    /\ SessFresh
    /\ FbFresh
    /\ requests = <<>> /\ req = NoRequest /\ decided = <<>>
    /\ dl = NoDownload /\ conv = NoConversion /\ pagesDir = FALSE
    /\ anchors \in {[i \in 1 .. n |-> ListingAnchor(i)] : n \in 0 .. MaxPromos}
    /\ title = <<>> /\ folder = <<>>
    /\ openPages = 0
    /\ GemFresh

Next ==
    \/ Discover \/ MainLoop
    \/ CsMkdir \/ CsOpen \/ OnRequest \/ CsGoto \/ CsLocate
    \/ CsDownload \/ CsConvert \/ CsIndex \/ CsFlipDone \/ CsFinally
    \/ FbGoto \/ FbFind \/ FbMkdir \/ FbSnapshot \/ FbProbe \/ FbClick

Spec == Init /\ [][Next]_vars

-----------------------------------------------------------------------------
(* Properties of one viewer capture *)

Returned == pc \in {"fb_done", "cs_flip_done"}

\* C2: once no advance control is present after a snapshot, the paginator
\* returns, and the count it returns is the ordinal of the last successful
\* snapshot, that is the number of page artifacts written.
C2_CountIsLastOrdinal ==
    (Returned /\ stop = "no_control") =>
        /\ ret = lastShot.ord
        /\ ret = Cardinality(written)

\* C3: whatever the advance controls do, the snapshot stored under ordinal n
\* is of the n-th viewer page (no page captured twice, none skipped).
C3_OrdinalIsViewerPage == lastShot.ord = lastShot.vp

\* C7: the ordinals written are exactly 1..k for some k >= 0, and the
\* snapshot for ordinal n is attempted only after ordinal n-1 was written.
C7_Contiguous ==
    /\ written = 1 .. Cardinality(written)
    /\ pc = "fb_snapshot" => (page_num = 1 \/ (page_num - 1) \in written)
    /\ pc = "fb_snapshot" => page_num \notin written

C7_Witness == pc = "fb_snapshot" /\ page_num = 4 /\ written = {1, 2, 3}

\* C8: the paginator always terminates and never takes more than 500
\* snapshots in one capture; stopped by the ceiling it reports 500.
C8_CeilingAndTermination ==
    /\ [](/\ Cardinality(written) <= 500
          /\ pc = "fb_snapshot" => page_num <= 500
          /\ (Returned /\ stop = "ceiling") => (ret = 500 /\ written = 1 .. 500))
    /\ <>(pc \in {"fb_done", "fb_raised"})

C8_Witness == pc = "fb_done" /\ stop = "ceiling" /\ Cardinality(written) = 500

\* C9: when the snapshot of ordinal k fails the paginator returns at once:
\* no advance control is tried, no further snapshot is attempted, nothing is
\* raised, and the count returned is k-1, the snapshots that succeeded.
C9_SnapshotFailureReturns ==
    stop = "snapshot_failed" =>
        /\ Returned
        /\ ret = page_num - 1
        /\ ret = Cardinality(written)
        /\ lastShot.ord = page_num - 1

C9_Witness == pc = "fb_done" /\ stop = "snapshot_failed" /\ page_num = 3 /\ ret = 2

-----------------------------------------------------------------------------
(* The frame scan on its own: a page with any frame tree of at most
   MaxFrames frames *)

\* what a frame's markup may hold: nothing, a quoted document URL, the
\* document URL only as an escaped "pdfUrl" field, or content() raising
FrameMarkups ==
    {<<>>, <<UrlTok(DocA)>>, <<UrlTok(DocB)>>, <<FieldTok(Escaped(DocA))>>, Fault}

ScanPage ==
    /\ pc = "scan_start"
    /\ pdf' = extract_pdf_from_iframes(frames)
    /\ pc' = "scan_done"
    /\ UNCHANGED <<caller, mainVars, envVars, fbVars>>
    /\ UNCHANGED <<pageOpen, observerOn, routeOn, found_pdfs, strategy, savedPdf, kind, exit>>
    /\ UNCHANGED newVars

InitFrames ==
    /\ pc = "scan_start"
    /\ caller = "none"
    /\ promos = <<>> /\ cur = 0 /\ results = <<>> /\ prev = "none"
    /\ prevNet = FALSE
    /\ pageOpen = TRUE /\ observerOn = TRUE /\ routeOn = TRUE /\ exit = "none"
    /\ found_pdfs = <<>> /\ pdf = None /\ strategy = "none" /\ savedPdf = FALSE /\ kind = "failed"
    /\ html = <<>>
    /\ \E n \in 1 .. MaxFrames :
       \E p \in Shapes(n) :
       \E m \in [1 .. n -> FrameMarkups] : frames = Tree(p, m[1], m)
    /\ FbFresh
    /\ NewFresh
    /\ openPages = 1
    /\ GemFresh

SpecFrames == InitFrames /\ [][ScanPage]_vars

\* the path from the main frame down to frame i
RECURSIVE PathTo(_, _)
PathTo(fr, i) ==
    IF fr[i].parent = 0 THEN <<i>> ELSE Append(PathTo(fr, fr[i].parent), i)

\* depth-first pre-order, children in document order: a frame comes before
\* its descendants, and a subtree before the subtrees of later siblings
Precedes(fr, a, b) ==
    LET p == PathTo(fr, a)
        q == PathTo(fr, b)
    IN \E k \in 1 .. Len(q) :
          /\ \A j \in 1 .. (k - 1) : j <= Len(p) /\ p[j] = q[j]
          /\ \/ k = Len(p) + 1
             \/ k <= Len(p) /\ p[k] < q[k]

Holders(fr) == {i \in DOMAIN fr : FrameMatch(fr, i) # None}

PreorderFirst(fr) ==
    IF Holders(fr) = {} THEN None
    ELSE FrameMatch(fr, CHOOSE i \in Holders(fr) :
                           \A j \in Holders(fr) \ {i} : Precedes(fr, i, j))

\* C10: for every frame tree the scan returns the first document URL in
\* depth-first pre-order (root first, children in document order), also when
\* it lies only in a grandchild behind a sibling without any, and None when
\* no frame holds one.
C10_ScanIsPreorderFirst == pc = "scan_done" => pdf = PreorderFirst(frames)

\* the reference only in a grandchild, behind a sibling subtree without one
C10_Witness ==
    /\ pc = "scan_done"
    /\ Len(frames) = 4
    /\ frames[2].parent = 1 /\ frames[3].parent = 1 /\ frames[4].parent = 3
    /\ Holders(frames) = {4}
    /\ pdf = DocA

\* what the top-level markup scan finds in frame i
TopLevelMatch(fr, i) ==
    IF fr[i].markup = Fault THEN None ELSE extract_pdf_url_from_text(fr[i].markup)

TopLevelHolders(fr) == {i \in DOMAIN fr : TopLevelMatch(fr, i) # None}

\* C11: the frame scan applies in every frame the two patterns of the
\* top-level markup scan (the "pdfUrl" field, unescaped, and the generic
\* document URL): on a page whose main frame holds nothing it returns what
\* the top-level scan finds in the first nested frame, in pre-order, where
\* that scan finds something; a document URL held only as an escaped
\* "pdfUrl" field of a nested frame is located.
C11_FramesUseBothPatterns ==
    (pc = "scan_done" /\ frames[1].markup = <<>>) =>
        pdf = (IF TopLevelHolders(frames) = {} THEN None
               ELSE TopLevelMatch(frames,
                       CHOOSE i \in TopLevelHolders(frames) :
                          \A j \in TopLevelHolders(frames) \ {i} : Precedes(frames, i, j)))

-----------------------------------------------------------------------------
(* The request interceptor: block_nonflip_images.handler, on one request *)

\* A request: its resource type ("" when the browser gives none), and its
\* URL as written: the words that occur in it, the extension it ends in and
\* whether a query string follows the extension.  faults names the calls
\* that raise while this request is handled: "eval" (reading the request),
\* "first" (the continue_ or abort the handler decides on) and "fallback"
\* (the continue_ of the except clause).
ResourceTypes == {"image", "script", ""}
UrlWords      == {"flip", "Flip", "page", "/uploads/", "banner"}
UrlExts       == {"png", "jpg", "jpeg", "webp", "gif", "svg", "PNG", "bmp", ""}
HandlerFaults == {"eval", "first", "fallback"}

Requests ==
    [rtype : ResourceTypes,
     url : [words : SUBSET UrlWords, ext : UrlExts, q : BOOLEAN],
     faults : SUBSET HandlerFaults]

LowerNot(w) == w
\* str.lower() on a piece of the URL
Lower(w) ==
    CASE w = "Flip" -> "flip"
      [] w = "PNG"  -> "png"
      [] OTHER      -> w

\* url = (req.url or "").lower()
LowerUrl(u) ==
    [words |-> {Lower(w) : w \in u.words}, ext |-> Lower(u.ext), q |-> u.q]

\* "flip" in url or "page" in url or "/uploads/" in url
\* or url.endswith((".png", ".jpg", ".jpeg", ".webp", ".gif", ".svg"))
AllowPattern(l) ==
    \/ "flip" \in l.words
    \/ "page" \in l.words
    \/ "/uploads/" \in l.words
    \/ (l.ext \in {"png", "jpg", "jpeg", "webp", "gif", "svg"} /\ ~l.q)

\* the call the try block decides on
Decision(r) ==
    IF r.rtype = "image"
    THEN (IF AllowPattern(LowerUrl(r.url)) THEN "continue" ELSE "abort")
    ELSE "continue"

\* except Exception: try: await route.continue_() except Exception: pass
Fallback(r) == IF "fallback" \in r.faults THEN <<>> ELSE <<"continue">>

\* the decisions that take effect on the request, in order
handler(r) ==
    IF "eval" \in r.faults THEN Fallback(r)
    ELSE IF "first" \in r.faults THEN Fallback(r)
    ELSE <<Decision(r)>>

Handler ==
    /\ pc = "h_start"
    /\ routeOn
    /\ decided' = handler(req)
    /\ pc' = "h_done"
    /\ UNCHANGED <<caller, mainVars, sessVars, envVars, fbVars>>
    /\ UNCHANGED <<requests, req, docVars, discVars, openPages, gemVars>>

\* a page with the route installed, and any one request of it
InitInterceptor ==
    /\ pc = "h_start"
    /\ caller = "none"
    /\ promos = <<>> /\ cur = 0 /\ results = <<>> /\ prev = "none"
    /\ prevNet = FALSE
    /\ pageOpen = TRUE /\ observerOn = FALSE /\ routeOn = TRUE /\ exit = "none"
    /\ SessFresh
    /\ FbFresh
    /\ requests = <<>>
    /\ req \in Requests
    /\ decided = <<>>
    /\ dl = NoDownload /\ conv = NoConversion /\ pagesDir = FALSE
    /\ anchors = <<>> /\ title = <<>> /\ folder = <<>>
    /\ openPages = 1
    /\ GemFresh

SpecInterceptor == InitInterceptor /\ [][Handler]_vars

\* a call raised while the request was handled
Faulted == "eval" \in req.faults \/ "first" \in req.faults

\* C13: every request handed to the handler ends up decided; whatever call
\* raised while it was handled (a failing abort or continue included), it is
\* resolved as continued, never left undecided.
C13_AlwaysDecided ==
    pc = "h_done" =>
        /\ Len(decided) = 1
        /\ Faulted => decided = <<"continue">>

\* C14: with no fault, a non-image request is continued; an image request is
\* continued iff its URL, case ignored, contains "flip", "page" or
\* "/uploads/" or ends in .png/.jpg/.jpeg/.webp/.gif/.svg, and aborted
\* otherwise; each request gets exactly one decision.
C14_AllowPolicy ==
    (pc = "h_done" /\ ~Faulted) =>
        LET allowed ==
               \/ req.url.words \cap {"flip", "Flip", "page", "/uploads/"} # {}
               \/ /\ req.url.ext \in {"png", "PNG", "jpg", "jpeg", "webp", "gif", "svg"}
                  /\ ~req.url.q
        IN /\ Len(decided) = 1
           /\ req.rtype # "image" => decided[1] = "continue"
           /\ (req.rtype = "image" /\ allowed) => decided[1] = "continue"
           /\ (req.rtype = "image" /\ ~allowed) => decided[1] = "abort"

\* an image whose URL matches only when its case is ignored is continued
C14_Witness ==
    /\ pc = "h_done" /\ ~Faulted /\ req.rtype = "image"
    /\ req.url.words = {"Flip"} /\ req.url.ext = "bmp"
    /\ decided = <<"continue">>

-----------------------------------------------------------------------------
(* Discovery on its own: get_promos on any promo list page, and safe on any
   title *)

\* the anchors a promo list page may hold: the same listing linked in two
\* written forms under different titles, another listing under the same
\* title, an anchor without href, one whose inspection raises, thumbnail
\* links with and without a real link beside them, and a listing without
\* any title text
AnchorKinds ==
    {[href |-> Href("abs", <<"a">>, FALSE), real |-> NoHref, title |-> <<"A">>, raises |-> FALSE],
     [href |-> Href("rel", <<"a">>, FALSE), real |-> NoHref, title |-> <<"B">>, raises |-> FALSE],
     [href |-> Href("abs", <<"b">>, FALSE), real |-> NoHref, title |-> <<"A">>, raises |-> FALSE],
     [href |-> NoHref, real |-> NoHref, title |-> <<"B">>, raises |-> FALSE],
     [href |-> Href("abs", <<"b">>, FALSE), real |-> NoHref, title |-> <<"B">>, raises |-> TRUE],
     [href |-> Href("abs", <<"t">>, TRUE), real |-> Href("rel", <<"a">>, FALSE),
      title |-> <<>>, raises |-> FALSE],
     [href |-> Href("abs", <<"t">>, TRUE), real |-> NoHref, title |-> <<"A", "/">>, raises |-> FALSE],
     [href |-> Href("proto", <<"b", "-", "a">>, FALSE), real |-> NoHref,
      title |-> <<>>, raises |-> FALSE]}

InitDiscover ==
    /\ pc = "main_discover"
    /\ caller = "none"
    /\ promos = <<>> /\ cur = 0 /\ results = <<>> /\ prev = "none"
    /\ prevNet = FALSE
    /\ pageOpen = FALSE /\ observerOn = FALSE /\ routeOn = FALSE /\ exit = "none"
    /\ SessFresh
    /\ FbFresh
    /\ requests = <<>> /\ req = NoRequest /\ decided = <<>>
    /\ dl = NoDownload /\ conv = NoConversion /\ pagesDir = FALSE
    /\ anchors \in UNION {[1 .. n -> AnchorKinds] : n \in 0 .. MaxAnchors}
    /\ title = <<>> /\ folder = <<>>
    /\ openPages = 0
    /\ GemFresh

SpecDiscover == InitDiscover /\ [][Discover]_vars

\* the titles given to safe: empty, whitespace, forbidden characters, letters
TitleChars == {"a", " "} \cup Forbidden
Titles == UNION {[1 .. n -> TitleChars] : n \in 0 .. MaxTitleLen}

\* "folder": safe(title)
SafeCall ==
    /\ pc = "safe_start"
    /\ folder' = safe(title)
    /\ pc' = "safe_done"
    /\ UNCHANGED <<caller, mainVars, sessVars, envVars, fbVars>>
    /\ UNCHANGED <<netVars, docVars, anchors, title, openPages, gemVars>>

InitSafe ==
    /\ pc = "safe_start"
    /\ caller = "none"
    /\ promos = <<>> /\ cur = 0 /\ results = <<>> /\ prev = "none"
    /\ prevNet = FALSE
    /\ pageOpen = FALSE /\ observerOn = FALSE /\ routeOn = FALSE /\ exit = "none"
    /\ SessFresh
    /\ FbFresh
    /\ requests = <<>> /\ req = NoRequest /\ decided = <<>>
    /\ dl = NoDownload /\ conv = NoConversion /\ pagesDir = FALSE
    /\ anchors = <<>>
    /\ title \in Titles
    /\ folder = <<>>
    /\ openPages = 0
    /\ GemFresh

SpecSafe == InitSafe /\ [][SafeCall]_vars

\* the position in es of the first entry with this link
FirstWith(link, es) ==
    CHOOSE j \in DOMAIN es :
        es[j].link = link /\ \A k \in 1 .. (j - 1) : es[k].link # link

\* C18: the list get_promos returns has no two entries with the same
\* normalized link; the entry kept for a link is the first one seen, with its
\* title; the kept entries are in first-seen order; no link is lost.
C18_DedupedFirstSeen ==
    pc = "main_loop" =>
        LET es == Entries(anchors) IN
        /\ \A i, j \in DOMAIN promos : i # j => promos[i].link # promos[j].link
        /\ \A i \in DOMAIN promos :
              /\ Seen(promos[i].link, es)
              /\ promos[i] = es[FirstWith(promos[i].link, es)]
        /\ \A i, j \in DOMAIN promos :
              i < j => FirstWith(promos[i].link, es) < FirstWith(promos[j].link, es)
        /\ \A k \in DOMAIN es : Seen(es[k].link, promos)

\* the same listing linked twice, in different written forms and under
\* different titles, with another listing in between
C18_Witness ==
    /\ pc = "main_loop"
    /\ Len(Entries(anchors)) = 3 /\ Len(promos) = 2
    /\ anchors[1].href.form = "abs" /\ anchors[3].href.form = "rel"
    /\ anchors[1].title = <<"A">> /\ anchors[3].title = <<"B">>
    /\ promos[1].title = <<"A">>

\* C19: for every title (empty, whitespace only and forbidden characters
\* only included) the folder key safe returns is not empty and holds none of
\* the characters \ / * ? : " < > |.
C19_FolderKeySafe ==
    pc = "safe_done" =>
        /\ folder # <<>>
        /\ \A i \in DOMAIN folder :
              folder[i] \notin {"\\", "/", "*", "?", ":", "\"", "<", ">", "|"}

\* a title of whitespace and forbidden characters only
C19_Witness ==
    /\ pc = "safe_done"
    /\ title = <<" ", "/", "*">>
    /\ folder = Untitled

-----------------------------------------------------------------------------
(* Properties of the orchestrator *)

Least(S) == CHOOSE i \in S : \A j \in S : i <= j

\* what each strategy of the content locator has to offer on the loaded
\* page, stated from the page and not from the locator's control flow
NetworkOffer == IF found_pdfs = <<>> THEN None ELSE found_pdfs[1]

FieldOffer ==
    LET I == {i \in DOMAIN html : html[i].k = "field"} IN
    IF I = {} THEN None ELSE [html[Least(I)].v EXCEPT !.esc = FALSE]

GenericOffer ==
    LET I == {i \in DOMAIN html : GenericInToken(html[i]) # None} IN
    IF I = {} THEN None ELSE GenericInToken(html[Least(I)])

ViewerOffer ==
    LET I == {i \in DOMAIN html :
                 html[i].v.name = "index" /\ html[i].v.ext = "html" /\ ~html[i].v.esc} IN
    IF I = {} THEN None ELSE html[Least(I)].v

\* the offers of the four document strategies, in the order of precedence
DocOffers ==
    <<[by |-> "network", url |-> NetworkOffer],
      [by |-> "field",   url |-> FieldOffer],
      [by |-> "generic", url |-> GenericOffer],
      [by |-> "frames",  url |-> PreorderFirst(frames)]>>

Offering == {i \in 1 .. 4 : DocOffers[i].url # None}

\* C1: the locator consults network-observed URL > "pdfUrl" field > generic
\* .pdf URL > frame scan > viewer index URL, a later one only when every
\* earlier one found nothing; a network-observed URL wins over a different
\* inline one; when nothing matches neither a document nor a viewer is
\* dispatched.
C1_StrategyOrder ==
    /\ pc = "cs_download" =>
          /\ Offering # {}
          /\ pdf = DocOffers[Least(Offering)].url
          /\ strategy = DocOffers[Least(Offering)].by
          /\ caller = "none"
    /\ pc \in {"cs_index", "fb_goto"} => (Offering = {} /\ pdf = None)
    /\ pc = "fb_goto" => (ViewerOffer # None /\ strategy = "viewer" /\ ~savedPdf)
    /\ (pc = "cs_finally" /\ exit = "return" /\ caller = "none" /\ pdf = None
            /\ Offering = {} /\ ViewerOffer = None) =>
          (strategy = "none" /\ ~savedPdf /\ written = {} /\ viewerLen = 0)

\* a network-observed document URL and a different inline one both exist,
\* and the document dispatched is the network-observed one
C1_Witness ==
    /\ pc = "cs_download"
    /\ NetworkOffer # None /\ FieldOffer # None /\ NetworkOffer # FieldOffer
    /\ GenericOffer # None
    /\ pdf = NetworkOffer

MainPcs == {"main_discover", "main_loop", "main_done", "main_aborted"}

\* C4: a fault while handling one listing never interrupts the batch:
\* capture_single returns normally and main processes every later listing.
C4_BatchNeverInterrupted ==
    pc \in {"main_done", "main_aborted"} =>
        (pc = "main_done" /\ Len(results) = Len(promos))

\* C5: on every exit path of capture_single the page it opened has been
\* closed and its request observer removed.
C5_SessionClosed ==
    pc \in MainPcs => (~pageOpen /\ ~observerOn)

\* a capture that left its try block by an exception, back in main's loop
C5_Witness ==
    /\ pc = "main_loop" /\ Len(results) = 1 /\ exit = "exception"
    /\ ~pageOpen /\ ~observerOn

\* C6: the outcome produced for a listing tells the four cases apart
\* (pages, degraded, partial, failed): two listings that came to different
\* cases have different outcomes; outcomes are recorded in discovery order.
C6_OutcomesTellCasesApart ==
    (pc = "cs_finally" /\ cur > 1 /\ prev # kind) =>
        results[cur - 1] # ReturnValue(kind)

\* a request whose URL path ends in the document extension, with or without
\* a query string after the path
IsDocRequest(u) == u.ext \in {"pdf", "PDF"}

\* the first occurrences of the elements of sq, in order
RECURSIVE FirstOccurrences(_, _)
FirstOccurrences(sq, acc) ==
    IF sq = <<>> THEN acc
    ELSE FirstOccurrences(Tail(sq),
                          IF InSeq(Head(sq), acc) THEN acc ELSE Append(acc, Head(sq)))

DocRequests == SelectSeq(requests, IsDocRequest)

\* C12: every request whose URL path ends in the document extension, with or
\* without a query string, is in the candidate list; the list has no
\* duplicates and keeps first-observed order; the locator's fast path picks
\* the earliest observed document request.
C12_CandidatesAreDocRequests ==
    /\ pc \in {"cs_goto", "cs_locate"} =>
          found_pdfs = FirstOccurrences(DocRequests, <<>>)
    /\ (pc = "cs_locate" /\ DocRequests # <<>>) =>
          \A text \in PageMarkups :
             Locate(found_pdfs, text, <<[parent |-> 0, markup |-> text]>>, FALSE).pdf
                = DocRequests[1]

\* the download failed by its status or by a network fault
DownloadFailed ==
    \/ dl.fault \in {"get", "body"}
    \/ (dl.fault = "none" /\ dl.status \notin {0, 200})

\* C15: when the download fails (status other than success, or a network
\* fault) no document file is written, the rasterizer is not invoked, no
\* pages/ directory is created by the capture, and the capture returns: its
\* next step closes the session and hands control to main's loop at the
\* next listing.
C15_DownloadFailureShortCircuits ==
    /\ [](DownloadFailed =>
             /\ ~savedPdf /\ ~conv.called /\ ~pagesDir /\ written = {}
             /\ pc = "cs_finally" /\ exit = "return")
    /\ [][DownloadFailed => (pc' = "main_loop" /\ cur' = cur + 1 /\ ~pageOpen')]_vars

\* the first of two listings answers its document request with status 404
C15_Witness ==
    /\ pc = "cs_finally" /\ dl = [status |-> 404, fault |-> "none"]
    /\ cur = 1 /\ Len(promos) = 2
    /\ ~savedPdf /\ ~pagesDir

\* C16: with the rasterizer available and no page failing, a document of P
\* pages yields exactly P artifacts, written in page order under the
\* ordinals 1..P, and the count returned is P.
C16_OneArtifactPerPage ==
    (conv.called /\ conv.fitz /\ ~conv.raised) =>
        /\ conv.count = conv.pages
        /\ conv.order = [i \in 1 .. conv.pages |-> i]
        /\ written = 1 .. conv.pages
        /\ Cardinality(written) = conv.pages

C16_Witness ==
    /\ pc = "cs_finally" /\ conv.called /\ conv.fitz /\ ~conv.raised
    /\ conv.pages = 2 /\ conv.order = <<1, 2>> /\ conv.count = 2

\* C17: without the rasterizer a downloaded document stays saved under PDF/,
\* no page artifact is produced, no pages/ directory is created and no
\* exception reaches the orchestrator: capture_single returns normally.
C17_RasterizerAbsent ==
    (conv.called /\ ~conv.fitz) =>
        /\ savedPdf
        /\ written = {} /\ ~pagesDir /\ conv.count = 0
        /\ pc = "cs_finally" /\ exit = "return"

C17_Witness ==
    /\ pc = "cs_finally" /\ conv.called /\ ~conv.fitz
    /\ savedPdf /\ dl = [status |-> 200, fault |-> "none"] /\ ~pagesDir

\* a capture is in progress
CapturePcs ==
    {"cs_mkdir", "cs_open", "cs_goto", "cs_locate", "cs_download", "cs_convert",
     "cs_index", "cs_flip_done", "cs_finally",
     "fb_goto", "fb_find", "fb_mkdir", "fb_snapshot", "fb_probe", "fb_click"}

\* C20: listings are processed one after the other in discovery order: the
\* capture of the k-th listing runs only when the captures of the k-1
\* listings before it have finished, a capture opens its session only when
\* no other page (the discovery page, an earlier session) is open, and at
\* most one page is open at any time.
C20_OneSessionAtATime ==
    /\ openPages <= 1
    /\ pageOpen => openPages = 1
    /\ pc \in {"cs_mkdir", "cs_open"} => openPages = 0
    /\ pc \in CapturePcs => (cur \in DOMAIN promos /\ Len(results) = cur - 1)

\* the second listing's session is open, the first capture has finished
C20_Witness ==
    /\ pc = "cs_goto" /\ cur = 2 /\ Len(results) = 1
    /\ pageOpen /\ openPages = 1

-----------------------------------------------------------------------------
(* Properties of the advance attempt and of the capture target *)

\* the control the priority list gives when no probe raises: the first one
\* present, 0 when none is
FirstPresent(present) == IF present = {} THEN 0 ELSE Least(present)

\* C21: after a snapshot the control activated is the first of the priority
\* list that is present, one control per snapshot, and the ordinal moves on
\* only when that control was activated, by the click or by its scripted
\* fallback.
C21_AdvanceOnlyWhenActivated ==
    /\ [](pc = "fb_probe" =>
            \A present \in Presentable :
               FirstButton(present, {}, 1) = FirstPresent(present))
    /\ [][pc = "fb_click" => page_num' \in {page_num, page_num + 1}]_vars
    /\ [][(pc = "fb_click" /\ page_num' # page_num) =>
            activation' \in {"click", "evaluate"}]_vars

\* the place of a probe in the order of the search: the page's five
\* selectors, then those of each frame, frame by frame
Rank(x) == 5 * x[1] + x[2]

\* the probes that answer with a match
Answering(m, raised, nf) ==
    {x \in Probes(nf) : x \notin raised /\ Matches(m, x[1], x[2])}

\* the first (context, selector) pair of the search order that answers with
\* a match, <<0, 0>> when none does
FirstPair(m, raised, nf) ==
    IF Answering(m, raised, nf) = {} THEN <<0, 0>>
    ELSE CHOOSE x \in Answering(m, raised, nf) :
            \A y \in Answering(m, raised, nf) : Rank(x) <= Rank(y)

LoopPcs == {"fb_snapshot", "fb_probe", "fb_click"}

\* C22: the capture target is the first (context, selector) pair, main
\* context first and then frame by frame, whose probe answers with a match;
\* it is chosen before the first snapshot, every snapshot is taken at it and
\* it never changes during the capture; when no pair matches no snapshot is
\* taken, no pages/ directory is created and the count is 0.
C22_TargetChosenOnce ==
    /\ [](pc = "fb_find" =>
            \A nf \in 1 .. MaxViewerFrames :
            \A m \in Matchings(nf) :
            \A raised \in {{}} \cup {{x} : x \in Probes(nf)} :
               FindTarget(m, raised, nf) = FirstPair(m, raised, nf))
    /\ [](pc \in {"fb_goto", "fb_find"} => (written = {} /\ lastShot = NoShot))
    /\ [](lastShot # NoShot => (found # 0 /\ lastShot.at = <<ctx, found>>))
    /\ [][(pc \in LoopPcs) => (ctx' = ctx /\ found' = found)]_vars
    /\ []((Returned /\ found = 0) => (written = {} /\ ~pagesDir /\ ret = 0))

\* the target is in a nested context, and the second snapshot of the capture
\* has been taken at it
C22_Witness ==
    /\ pc = "fb_probe"
    /\ ctx = 2 /\ found = 3
    /\ written = {1, 2}
    /\ lastShot.ord = 2 /\ lastShot.at = <<2, 3>>

-----------------------------------------------------------------------------
(* Properties of a capture session among the others of the run *)

\* the candidate list on_request builds from the requests reqs, starting
\* from the list fp
RECURSIVE Observed(_, _)
Observed(reqs, fp) ==
    IF reqs = <<>> THEN fp
    ELSE Observed(Tail(reqs), on_request(fp, Head(reqs)))

\* C23: the candidate list of a session is empty when the session starts and
\* holds nothing but what on_request made of the requests of that session;
\* the descriptor the locator chooses is determined by those requests and by
\* the page of the session, whatever an earlier session observed.
C23_CandidatesPerSession ==
    /\ [](pc \in AwaitPcs => found_pdfs = Observed(requests, <<>>))
    /\ [][(pc = "cs_open" /\ pc' = "cs_goto") => found_pdfs' = <<>>]_vars
    /\ [][(pc = "cs_locate" /\ pc' # "cs_locate") =>
            \E contentRaises \in BOOLEAN :
               pdf' = Locate(Observed(requests, <<>>), html', frames',
                             contentRaises).pdf]_vars

\* the session before this one observed a document request, this one
\* observed none, and its descriptor comes from the page's markup
C23_Witness ==
    /\ pc = "cs_download" /\ cur = 2
    /\ prevNet
    /\ found_pdfs = <<>>
    /\ strategy = "field" /\ pdf = DocA

\* where control is while the viewer-index strategy or the paginator runs,
\* and until the paginator's result has been taken
ViewerPcs ==
    {"cs_index", "fb_goto", "fb_find", "fb_mkdir", "fb_snapshot", "fb_probe",
     "fb_click", "cs_flip_done"}

\* C24: in one session the document branch (download, conversion) and the
\* viewer branch (index strategy, paginator) exclude each other: once a
\* document URL is located the viewer branch is never entered, also when the
\* download fails, and the viewer branch runs only without a document URL.
C24_DocumentOrViewer ==
    /\ pc \in ViewerPcs =>
          (pdf = None /\ dl = NoDownload /\ ~conv.called /\ ~savedPdf)
    /\ pdf # None =>
          /\ caller = "none" /\ strategy # "viewer"
          /\ viewerLen = 0 /\ ret = -1 /\ lastShot = NoShot
    /\ (dl # NoDownload \/ conv.called) =>
          (pdf # None /\ caller = "none" /\ ret = -1 /\ lastShot = NoShot)
    /\ caller = "capture_single" =>
          (pdf = None /\ dl = NoDownload /\ ~conv.called)

\* a document URL was located, its download failed, and the session is at
\* its end without the viewer having been looked for
C24_Witness ==
    /\ pc = "cs_finally" /\ exit = "return"
    /\ pdf # None /\ dl.status = 404
    /\ ~savedPdf /\ ~conv.called
    /\ caller = "none" /\ ret = -1 /\ written = {}

\* folder = OUTPUT_DIR / promo["folder"]: the directory a capture writes
\* under (PDF/ and pages/ inside it), named by the folder key alone
OutputFolder(promo) == promo.folder

\* C25: no two listings returned by discovery write to the same output
\* folder, so the artifacts under one folder's pages/ come from one
\* listing's capture only.
C25_FoldersDistinct ==
    pc = "main_loop" =>
        \A i, j \in DOMAIN promos :
           i # j => OutputFolder(promos[i]) # OutputFolder(promos[j])

-----------------------------------------------------------------------------
(* The model call with its retries: call_gemini of src/data_extraction.py *)

\* MAX_RETRIES = 3
MAX_RETRIES == 3

Images == 1 .. MaxImages

\* the "code" of an error object: the string "429", the number 429, another
\* string, or no code at all
Str429 == [type |-> "str", v |-> 429]
Codes ==
    {Str429, [type |-> "int", v |-> 429], [type |-> "str", v |-> 500],
     [type |-> "str", v |-> 400], NoCode}

Completion(img) == [error |-> "absent", code |-> NoCode, body |-> img]
ErrorData(code) == [error |-> "object", code |-> code, body |-> 0]
ErrorText       == [error |-> "text", code |-> NoCode, body |-> 0]

\* what the gateway may answer to a request about img
Responses(img) == {Completion(img), ErrorText} \cup {ErrorData(c) : c \in Codes}

\* requests.post raises (no connection), response.json() raises (the body
\* is no JSON), or neither
PostFaults == {"none", "post", "json"}

\* data["error"].get("code") == "429"
IsRateLimit(d) == d.code = Str429

\* wait = (attempt + 1) * 5
Wait(a) == (a + 1) * 5

MoreAttemptsOffByOne(a) == a + 1 <= MAX_RETRIES
\* for attempt in range(MAX_RETRIES): is there an iteration after attempt a
MoreAttempts(a) == a + 1 < MAX_RETRIES

Returns(d) ==
    /\ result' = [how |-> "returned", value |-> d, exc |-> "none"]
    /\ pc' = "g_returned"

\* the exception leaves call_gemini: nothing in it catches one
Raises(exc) ==
    /\ result' = [how |-> "raised", value |-> NoData, exc |-> exc]
    /\ pc' = "g_raised"

\* one iteration of the retry loop: post, response.json(), the checks of
\* "error", the sleep before the next iteration, and the "return data" after
\* the loop when this was the last iteration
GeminiAttempt ==
    /\ pc = "g_post"
    /\ posts' = Append(posts, [image |-> image_b64, attempt |-> attempt])
    /\ \E fault \in PostFaults, d \in Responses(image_b64) :
          /\ fault # "none" => d = ErrorText     \* no JSON arrives
          /\ IF fault # "none"
             THEN Raises(fault) /\ UNCHANGED <<data, sleeps, attempt>>
             ELSE /\ data' = d
                  /\ IF d.error = "absent"
                     THEN Returns(d) /\ UNCHANGED <<sleeps, attempt>>
                     ELSE IF d.error = "text"  \* a str has no .get
                     THEN Raises("get") /\ UNCHANGED <<sleeps, attempt>>
                     ELSE IF IsRateLimit(d)
                     THEN /\ sleeps' = Append(sleeps, Wait(attempt))
                          /\ IF MoreAttempts(attempt)
                             THEN /\ attempt' = attempt + 1
                                  /\ pc' = "g_post"
                                  /\ UNCHANGED result
                             ELSE Returns(d) /\ UNCHANGED attempt
                     ELSE Returns(d) /\ UNCHANGED <<sleeps, attempt>>
    /\ UNCHANGED <<caller, mainVars, sessVars, envVars, fbVars>>
    /\ UNCHANGED <<netVars, docVars, discVars, openPages, image_b64>>

InitGemini ==
    /\ pc = "g_post"
    /\ caller = "none"
    /\ promos = <<>> /\ cur = 0 /\ results = <<>> /\ prev = "none"
    /\ prevNet = FALSE
    /\ pageOpen = FALSE /\ observerOn = FALSE /\ routeOn = FALSE /\ exit = "none"
    /\ SessFresh
    /\ FbFresh
    /\ NewFresh
    /\ openPages = 0
    /\ image_b64 \in Images
    /\ attempt = 0
    /\ data = NoData
    /\ posts = <<>>
    /\ sleeps = <<>>
    /\ result = NoResult

\* every request is answered or fails: the handler's iteration, once begun,
\* comes to its end
SpecGemini == InitGemini /\ [][GeminiAttempt]_vars /\ WF_vars(GeminiAttempt)

\* an error object whose code is the string "429"
Is429(d) == d.error = "object" /\ d.code.type = "str" /\ d.code.v = 429

GemEnded == pc \in {"g_returned", "g_raised"}

====
